---- MODULE Spec2Model ----
(***************************************************************************)
(* The commodity price forecasting engine of                               *)
(* src/Backend/market_price_prediction.py (class MarketPricePredictor):    *)
(* the series store, per-commodity training and model selection, the       *)
(* single-point prediction, the multi-day forecast and the persistence of  *)
(* the registry.                                                           *)
(*                                                                         *)
(* Prices are integers (rupees); a mean, a trend and a squared coefficient  *)
(* of variation are exact fractions <<num, den>>, NaN being <<0, 0>>.      *)
(* A date is a day number, day 0 being 2025-01-01; the modelled dates lie  *)
(* in 2025 and 2026, which have 365 days each.  A fitted scikit-learn      *)
(* estimator is the record of what determines it (its class, the series    *)
(* it was fitted on, the representation of the rows it was fitted on) and  *)
(* the value it returns for a vector is the record of that estimator and   *)
(* that vector: two predicted prices are equal exactly when they come from *)
(* the same fitted function applied to the same vector.                    *)
(***************************************************************************)
EXTENDS Integers, Sequences, FiniteSets, TLC

VARIABLES
    historical_data,  \* self.historical_data: crop -> series
    models,           \* self.models: crop -> fitted model
    scalers,          \* self.scalers: crop -> fitted scaler
    label_encoders,   \* self.label_encoders
    phase,            \* "constructing" (inside __init__) or "serving"
    loadIdx,          \* position of load_historical_data's training loop
    nruns,            \* calls of _train_crop_model so far (a call's objects
                      \* carry its number: their identity)
    tpc,              \* position of the thread inside _train_crop_model
    tloc,             \* its locals: crop_name, best_model, scaler
    cpc,              \* position of the client thread
    cloc,             \* its locals inside predict_price
    fc,               \* its locals inside get_price_forecast
    ret,              \* what the call that returned last gave its caller
    prev,             \* what the same call gave when made just before, or
                      \* the prediction the caller received last
    now,              \* the clock, in days
    used,             \* retrains, restarts and clock ticks so far
    file,             \* the artifact at the path given to save/load
    savedFrom,        \* the series the registry in the artifact was used with
    market_prices     \* the rows of the market_prices table of the database

vars == <<historical_data, models, scalers, label_encoders, phase, loadIdx,
          nruns, tpc, tloc, cpc, cloc, fc, ret, prev, now, used, file,
          savedFrom, market_prices>>

----------------------------------------------------------------------------
(* Bounds of the model *)

\* series contents are drawn from the patterns 0..MaxSeed
MaxSeed == 1
\* R2 scores of the candidates are drawn from 0..MaxScore
MaxScore == 1
\* the normal perturbation of the confidence, in hundredths, reaches +-MaxNoise
MaxNoise == 20
\* on-demand calls of _train_crop_model after construction
MaxRetrain == 1
\* largest days argument of get_price_forecast
MaxDays == 2
\* days the clock advances
MaxTicks == 1
\* process restarts (a newly constructed predictor)
MaxRestart == 1
\* rows add_price_data inserts
MaxAppend == 1

(* Program constants *)

MinRows == 100          \* if len(data) < 100
Lag1 == 1               \* shift(1)
Lag7 == 7               \* shift(7)
Lag30 == 30             \* shift(30)
Win7 == 7               \* rolling(window=7), tail(7)
Win30 == 30             \* rolling(window=30), tail(30)
TailLen == 30           \* historical_data[crop_name].tail(30)
NumDays == 1827         \* date_range('2020-01-01', '2024-12-31', freq='D')
NegInf == -1            \* best_score = -np.inf: below every score
ConfMin == 50           \* max(0.5, ...)
ConfMax == 95           \* min(0.95, ...)
ManyPoints == 1000      \* data_points > 1000
SomePoints == 500       \* data_points > 500
ConfHigh == 85
ConfMid == 75
ConfLow == 65
DaysPerYear == 365

----------------------------------------------------------------------------
(* The series store *)

\* the keys of self.historical_data, in the dict's insertion order
CropOrder == <<"Rice", "Coconut">>

Crops == {CropOrder[i] : i \in 1..Len(CropOrder)}

\* crop names a caller may pass; "Wheat" has no series
CropNames == Crops \cup {"Wheat"}

\* lengths of the series a feed may hold: too short for any valid row, one
\* row short of training, just enough, and the generated five years
Lens == {40, MinRows + Lag30 - 1, MinRows + Lag30, 600, NumDays}

Series == [len : Lens, seed : 0..MaxSeed]

Min(a, b) == IF a < b THEN a ELSE b
Max(a, b) == IF a > b THEN a ELSE b

\* the price of row i (0-based, as iloc) of a series: a steady, a rising,
\* a falling and an alternating course
Price(ser, i) ==
    LET k == ser.len - 1 - i
        p == ser.seed % 4
    IN  CASE p = 0 -> 30 + (i % 3)
          [] p = 1 -> 60 - Min(k, 30)
          [] p = 2 -> 30 + Min(k, 30)
          [] OTHER -> IF i % 2 = 0 THEN 10 ELSE 30

\* what _generate_historical_prices may return: one row per day of
\* 2020..2024, the prices random
Generated == {s \in Series : s.len = NumDays}

\* the day of row i of a series: one row per calendar day, the last row
\* that of 2024-12-31
RowDay(ser, i) == i - ser.len

\* self.historical_data as _train_crop_model reads it.  The generator gives
\* every crop 1827 rows; the first crop's series also ranges over shorter
\* ones, as a store filled from a price feed holds them (the attribute is
\* read, never checked, by the training and the prediction code).  The
\* other crops have generated series of the steady course.
Feeds ==
    {h \in [Crops -> Series] :
        \A i \in 2..Len(CropOrder) :
            h[CropOrder[i]] = [len |-> NumDays, seed |-> 0]}

----------------------------------------------------------------------------
(* Feature engineering *)

RECURSIVE SumPrices(_, _, _)
SumPrices(ser, lo, hi) ==
    IF lo > hi THEN 0 ELSE Price(ser, hi) + SumPrices(ser, lo, hi - 1)

RECURSIVE SumSquares(_, _, _)
SumSquares(ser, lo, hi) ==
    IF lo > hi THEN 0
    ELSE Price(ser, hi) * Price(ser, hi) + SumSquares(ser, lo, hi - 1)

\* pandas' mean of rows lo..hi: a fraction; NaN (<<0, 0>>) of no rows
Mean(ser, lo, hi) ==
    IF lo > hi THEN <<0, 0>> ELSE <<SumPrices(ser, lo, hi), hi - lo + 1>>

\* the first row in which every shifted and every rolling column is
\* defined: shift(k) leaves the first k rows NaN, rolling(w) the first w - 1
FirstValid == Max(Max(Max(Lag1, Lag7), Lag30), Max(Win7 - 1, Win30 - 1))

\* the training table as it would be if the undefined lags were padded
\* and no row dropped
ValidRowsPadded(ser) == 0..(ser.len - 1)

\* the rows of the training table that survive dropna()
ValidRows(ser) == FirstValid..(ser.len - 1)

\* the month (1..12) of a day of the year (1..365)
MonthOfYearDay(yd) ==
    CASE yd <= 31 -> 1
      [] yd <= 59 -> 2
      [] yd <= 90 -> 3
      [] yd <= 120 -> 4
      [] yd <= 151 -> 5
      [] yd <= 181 -> 6
      [] yd <= 212 -> 7
      [] yd <= 243 -> 8
      [] yd <= 273 -> 9
      [] yd <= 304 -> 10
      [] yd <= 334 -> 11
      [] OTHER -> 12

\* the first day of the year of each month, less one
MonthStart(m) ==
    CASE m = 1 -> 0
      [] m = 2 -> 31
      [] m = 3 -> 59
      [] m = 4 -> 90
      [] m = 5 -> 120
      [] m = 6 -> 151
      [] m = 7 -> 181
      [] m = 8 -> 212
      [] m = 9 -> 243
      [] m = 10 -> 273
      [] m = 11 -> 304
      [] OTHER -> 334

DayOfYear(d) == (d % DaysPerYear) + 1
YearOf(d) == 2025 + (d \div DaysPerYear)
MonthOf(d) == MonthOfYearDay(DayOfYear(d))
DayOfMonth(d) == DayOfYear(d) - MonthStart(MonthOf(d))
\* datetime.weekday(): Monday is 0; 2025-01-01 is a Wednesday
Weekday(d) == (d + 2) % 7
Quarter(d) == ((MonthOf(d) - 1) \div 3) + 1

\* feature_columns of the training table, and the order of the array
\* _prepare_prediction_features returns
feature_columns ==
    <<"year", "month", "day", "dayofyear", "weekday", "quarter",
      "sin_dayofyear", "cos_dayofyear", "price_lag_1", "price_lag_7",
      "price_lag_30", "price_ma_7", "price_ma_30">>

prediction_columns ==
    <<"year", "month", "day", "dayofyear", "weekday", "quarter",
      "sin_dayofyear", "cos_dayofyear", "price_lag_1", "price_lag_7",
      "price_lag_30", "price_ma_7", "price_ma_30">>

\* the columns computed from prices
PriceColumns ==
    {"price_lag_1", "price_lag_7", "price_lag_30", "price_ma_7",
     "price_ma_30"}

\* the rows <<first, last>> of the series whose prices make each price
\* column of row i of the training table: shift(k) reads row i - k,
\* rolling(window=w) the w rows that end with row i itself
TrainObs(i) ==
    [price_lag_1 |-> <<i - Lag1, i - Lag1>>,
     price_lag_7 |-> <<i - Lag7, i - Lag7>>,
     price_lag_30 |-> <<i - Lag30, i - Lag30>>,
     price_ma_7 |-> <<i - Win7 + 1, i>>,
     price_ma_30 |-> <<i - Win30 + 1, i>>]

\* the prediction columns as they would be if price_lag_1 read the row
\* before the last
PredictObsShifted(ser) ==
    LET lo == Max(0, ser.len - TailLen)
        hi == ser.len - 1
    IN  [price_lag_1 |-> <<hi - 1, hi - 1>>,
         price_lag_7 |-> <<hi + 1 - Lag7, hi + 1 - Lag7>>,
         price_lag_30 |-> <<hi + 1 - Lag30, hi + 1 - Lag30>>,
         price_ma_7 |-> <<Max(lo, hi + 1 - Win7), hi>>,
         price_ma_30 |-> <<Max(lo, hi + 1 - Win30), hi>>]

\* the rows <<first, last>> of the series whose prices make each price
\* column of the prediction vector: iloc[-k] of the last 30 rows (their
\* mean when there are fewer than k), tail(w) of them
PredictObs(ser) ==
    LET lo == Max(0, ser.len - TailLen)
        hi == ser.len - 1
        n == hi - lo + 1
    IN  [price_lag_1 |-> IF n > 0 THEN <<hi, hi>> ELSE <<lo, hi>>,
         price_lag_7 |-> IF n >= Lag7 THEN <<hi + 1 - Lag7, hi + 1 - Lag7>>
                         ELSE <<lo, hi>>,
         price_lag_30 |-> IF n >= Lag30
                          THEN <<hi + 1 - Lag30, hi + 1 - Lag30>>
                          ELSE <<lo, hi>>,
         price_ma_7 |-> <<Max(lo, hi + 1 - Win7), hi>>,
         price_ma_30 |-> <<Max(lo, hi + 1 - Win30), hi>>]

\* the value of a price column: the mean of the prices of its rows
ColumnValue(ser, rows) == Mean(ser, rows[1], rows[2])

\* _prepare_prediction_features: the 13 features, in the order of the array
\* (sin and cos of 2 pi dayofyear / 365 are kept as the day of the year)
prepare_prediction_features(ser, d) ==
    LET obs == PredictObs(ser)
    IN  << YearOf(d), MonthOf(d), DayOfMonth(d), DayOfYear(d), Weekday(d),
           Quarter(d), DayOfYear(d), DayOfYear(d),
           ColumnValue(ser, obs.price_lag_1),
           ColumnValue(ser, obs.price_lag_7),
           ColumnValue(ser, obs.price_lag_30),
           ColumnValue(ser, obs.price_ma_7),
           ColumnValue(ser, obs.price_ma_30) >>

----------------------------------------------------------------------------
(* Model training and selection *)

None == [kind |-> "None"]

\* no call has returned yet
NoResult == [op |-> "none", kind |-> "none"]

EmptyDict == [c \in {} |-> None]

\* the store as it would be if it rebound the dict to the one entry
PutOnly(d, k, v) == [c \in {k} |-> v]

\* d[k] = v on a dict
Put(d, k, v) == [c \in (DOMAIN d) \cup {k} |-> IF c = k THEN v ELSE d[c]]

\* the candidates, in the order the dict `models` of _train_crop_model
\* iterates them
CandOrder == <<"random_forest", "gradient_boosting", "linear_regression">>

CandNames == {CandOrder[i] : i \in 1..Len(CandOrder)}

\* the test-set R2 of each candidate: whatever the fit gives
ScoreTables == [CandNames -> 0..MaxScore]

\* the loop over the candidates from position i on: the name of best_model
\* at its end
RECURSIVE SelectFrom(_, _, _, _)
SelectFrom(sc, i, best_name, best_score) ==
    IF i > Len(CandOrder) THEN best_name
    ELSE IF sc[CandOrder[i]] > best_score
         THEN SelectFrom(sc, i + 1, CandOrder[i], sc[CandOrder[i]])
         ELSE SelectFrom(sc, i + 1, best_name, best_score)

\* the selection as it would be with `>=` for `>`: among equal scores the
\* last candidate wins
SelectLast(sc) ==
    LET top == CHOOSE m \in 0..MaxScore :
                   /\ \E n \in CandNames : sc[n] = m
                   /\ \A n \in CandNames : sc[n] <= m
        last == CHOOSE i \in 1..Len(CandOrder) :
                   /\ sc[CandOrder[i]] = top
                   /\ \A j \in 1..Len(CandOrder) : sc[CandOrder[j]] = top => j <= i
    IN  CandOrder[last]

\* the selection as it would be from best_score = 0
SelectBestFromZero(sc) == SelectFrom(sc, 1, "None", 0)

\* best_model_name after the loop, from best_model = None, best_score = -inf
SelectBest(sc) == SelectFrom(sc, 1, "None", NegInf)

\* a fitted candidate: linear_regression is fitted on X_train_scaled, the
\* two tree ensembles on X_train
FittedModel(name, ser, run) ==
    IF name = "None" THEN None
    ELSE [kind |-> name, data |-> ser, run |-> run,
          rows |-> IF name = "linear_regression" THEN "scaled" ELSE "raw"]

\* scaler.fit_transform(X_train)
FittedScaler(ser, run) == [kind |-> "scaler", data |-> ser, run |-> run]

\* the skip rule as it would be with the threshold of the longest lag
InsufficientLoose(ser) == Cardinality(ValidRows(ser)) < Lag30

\* the training as it would be without the skip rule
InsufficientNever(ser) == FALSE

\* the skip rule
Insufficient(ser) == Cardinality(ValidRows(ser)) < MinRows

NoTrainLocals == [crop_name |-> "", best_model |-> None, scaler |-> None,
                  scores |-> None]

\* the return as it would be if a training that stored nothing raised
TrainReturnRaise(c, line) ==
    [op |-> "_train_crop_model",
     kind |-> IF line = "trained" THEN "ok" ELSE "error",
     crop_name |-> c, logged |-> line]

\* what _train_crop_model gives its caller: nothing; `logged` is the line
\* it wrote to the log
TrainReturn(c, line) ==
    [op |-> "_train_crop_model", kind |-> "ok", crop_name |-> c,
     logged |-> line]

\* _train_crop_model(c) up to its first store: the features, the skip rule,
\* the split, the fits and the selection.  An exception (no series for c, a
\* fit that raises) is logged and swallowed.
TrainBegin(c) ==
    /\ tpc = "idle"
    /\ prev' = NoResult
    /\ nruns' = nruns + 1
    /\ \/ /\ c \notin DOMAIN historical_data
          /\ ret' = TrainReturn(c, "error")
          /\ UNCHANGED <<tpc, tloc>>
       \/ /\ c \in DOMAIN historical_data
          /\ IF Insufficient(historical_data[c])
             THEN /\ ret' = TrainReturn(c, "insufficient data")
                  /\ UNCHANGED <<tpc, tloc>>
             ELSE \/ /\ ret' = TrainReturn(c, "error")
                     /\ UNCHANGED <<tpc, tloc>>
                  \/ /\ \E sc \in ScoreTables :
                           tloc' = [crop_name |-> c,
                                    best_model |->
                                        FittedModel(SelectBest(sc),
                                            historical_data[c], nruns + 1),
                                    scaler |->
                                        FittedScaler(historical_data[c],
                                                     nruns + 1),
                                    scores |-> sc]
                     /\ tpc' = "store_model"
                     /\ ret' = NoResult

\* self.models[crop_name] = best_model
TrainStoreModel ==
    /\ tpc = "store_model"
    /\ models' = Put(models, tloc.crop_name, tloc.best_model)
    /\ tpc' = "store_scaler"
    /\ tloc' = [tloc EXCEPT !.scores = None]
    /\ UNCHANGED <<historical_data, scalers, label_encoders, phase, loadIdx,
                   nruns, cpc, cloc, fc, ret, prev, now, used,
                   file, savedFrom,
                   market_prices>>

\* self.scalers[crop_name] = scaler, and the return
TrainStoreScaler ==
    /\ tpc = "store_scaler"
    /\ scalers' = Put(scalers, tloc.crop_name, tloc.scaler)
    /\ tpc' = "idle"
    /\ ret' = TrainReturn(tloc.crop_name, "trained")
    /\ tloc' = NoTrainLocals
    /\ UNCHANGED <<historical_data, models, label_encoders, phase, loadIdx,
                   nruns, cpc, cloc, fc, prev, now, used, file, savedFrom,
                   market_prices>>

\* the loop as it would be if a training that stored nothing ended it
LoadHistoricalStepAbort ==
    /\ phase = "constructing"
    /\ loadIdx <= Len(CropOrder)
    /\ TrainBegin(CropOrder[loadIdx])
    /\ loadIdx' = IF ret'.op = "_train_crop_model"
                  THEN Len(CropOrder) + 1
                  ELSE loadIdx + 1
    /\ UNCHANGED <<historical_data, models, scalers, label_encoders, phase,
                   cpc, cloc, fc, now, used, file, savedFrom,
                   market_prices>>

\* load_historical_data's loop: for crop_name in self.historical_data.keys()
LoadHistoricalStep ==
    /\ phase = "constructing"
    /\ loadIdx <= Len(CropOrder)
    /\ TrainBegin(CropOrder[loadIdx])
    /\ loadIdx' = loadIdx + 1
    /\ UNCHANGED <<historical_data, models, scalers, label_encoders, phase,
                   cpc, cloc, fc, now, used, file, savedFrom,
                   market_prices>>

\* the end of __init__: the predictor is handed to its callers
ConstructDone ==
    /\ phase = "constructing"
    /\ loadIdx > Len(CropOrder)
    /\ tpc = "idle"
    /\ phase' = "serving"
    /\ UNCHANGED <<historical_data, models, scalers, label_encoders, loadIdx,
                   nruns, tpc, tloc, cpc, cloc, fc, ret, prev, now,
                   used, file, savedFrom,
                   market_prices>>

\* a call of _train_crop_model(c) on the constructed predictor (a retrain)
Retrain(c) ==
    /\ phase = "serving"
    /\ used.retrain < MaxRetrain
    /\ TrainBegin(c)
    /\ used' = [used EXCEPT !.retrain = @ + 1]
    /\ UNCHANGED <<historical_data, models, scalers, label_encoders, phase,
                   loadIdx, cpc, cloc, fc, now, file, savedFrom,
                   market_prices>>

----------------------------------------------------------------------------
(* The prediction engine *)

\* what the random source gives one predict_price call, in hundredths:
\* np.random.normal(0, 0.05) (a value that clips at 0.5, a small one, one
\* that clips at 0.95), np.random.uniform(0.8, 1.2) and
\* np.random.uniform(0.9, 1.1)
RandomDraws ==
    {[noise |-> -MaxNoise, supply |-> 80, demand |-> 110],
     [noise |-> 0, supply |-> 100, demand |-> 100],
     [noise |-> MaxNoise, supply |-> 120, demand |-> 90]}

\* scaler.transform(features.reshape(1, -1)): the vector standardised with
\* the statistics of the series the scaler was fitted on
ScalerTransform(scaler, features) ==
    [rows |-> "scaled", fitted_on |-> scaler.data, x |-> features]

\* model.predict(features_scaled)[0], rounded to 2 places: the value of the
\* fitted function at the vector
ModelPredict(model, vector) ==
    [kind |-> model.kind, fitted_on |-> model.data, at |-> vector]

\* the confidence as it would be without the final max(0.5, min(0.95, .))
calculate_confidence_unclipped(ser, noise) ==
    LET data_points == ser.len
    IN  (IF data_points > ManyPoints THEN ConfHigh
         ELSE IF data_points > SomePoints THEN ConfMid
         ELSE ConfLow) + noise

\* the confidence as it would be with the tiers in the opposite order
calculate_confidence_inverted(ser, noise) ==
    LET data_points == ser.len
        base_confidence == IF data_points > ManyPoints THEN ConfLow
                           ELSE IF data_points > SomePoints THEN ConfMid
                           ELSE ConfHigh
        confidence == base_confidence + noise
    IN  Max(ConfMin, Min(ConfMax, confidence))

\* _calculate_confidence, in hundredths
calculate_confidence(ser, noise) ==
    LET data_points == ser.len
        base_confidence == IF data_points > ManyPoints THEN ConfHigh
                           ELSE IF data_points > SomePoints THEN ConfMid
                           ELSE ConfLow
        confidence == base_confidence + noise
    IN  Max(ConfMin, Min(ConfMax, confidence))

\* the seasonal factor as it would be with each season a month earlier
SeasonalDemandShifted(d) ==
    IF MonthOf(d) \in {5, 6, 7, 8, 9} THEN 80
    ELSE IF MonthOf(d) \in {10, 11, 12, 1} THEN 120
    ELSE 100

\* factors['seasonal_demand'], in hundredths
SeasonalDemand(d) ==
    IF MonthOf(d) \in {6, 7, 8, 9, 10} THEN 80
    ELSE IF MonthOf(d) \in {11, 12, 1, 2} THEN 120
    ELSE 100

\* factors['price_trend']: (last - first) / first of the last 30 prices
PriceTrend(ser) ==
    LET lo == Max(0, ser.len - TailLen)
        hi == ser.len - 1
    IN  IF hi - lo + 1 > 1
        THEN <<Price(ser, hi) - Price(ser, lo), Price(ser, lo)>>
        ELSE <<0, 1>>

\* factors['market_volatility'], squared: (std / mean)^2 of the last 30
\* prices, std being pandas' sample standard deviation
MarketVolatility(ser) ==
    LET lo == Max(0, ser.len - TailLen)
        hi == ser.len - 1
        n == hi - lo + 1
        sum == SumPrices(ser, lo, hi)
        sq == SumSquares(ser, lo, hi)
    IN  IF n = 0 \/ sum <= 0 THEN <<0, 1>>
        ELSE IF n = 1 THEN <<0, 0>>
        ELSE <<n * (n * sq - sum * sum), (n - 1) * sum * sum>>

\* _analyze_prediction_factors
analyze_prediction_factors(ser, d, supply, demand) ==
    [seasonal_demand |-> SeasonalDemand(d),
     price_trend |-> PriceTrend(ser),
     market_volatility |-> MarketVolatility(ser),
     supply_pressure |-> supply,
     demand_pressure |-> demand]

\* a fraction q > num / den, for den > 0 (a comparison with NaN is False)
FracGreater(q, num, den) == q[2] > 0 /\ q[1] * den > num * q[2]
FracLess(q, num, den) == q[2] > 0 /\ q[1] * den < num * q[2]

\* the recommendation as it would be if it also read the pressure factors
generate_price_recommendation_pressure(factors) ==
    IF factors.supply_pressure > factors.demand_pressure
    THEN <<"oversupply">>
    ELSE <<"stable">>

\* _generate_price_recommendation: the sentences joined by " | "
generate_price_recommendation(factors) ==
    LET trend == IF FracGreater(factors.price_trend, 1, 10)
                 THEN <<"trending upward">>
                 ELSE IF FracLess(factors.price_trend, -1, 10)
                      THEN <<"declining">>
                      ELSE <<"stable">>
        season == IF factors.seasonal_demand > 110
                  THEN <<"high seasonal demand">>
                  ELSE IF factors.seasonal_demand < 90
                       THEN <<"low seasonal demand">>
                       ELSE <<>>
        \* volatility > 0.2, on the square: 25 * num > den
        vol == IF /\ factors.market_volatility[2] > 0
                  /\ factors.market_volatility[1]
                        > factors.market_volatility[2] \div 25
               THEN <<"high volatility">>
               ELSE <<"stable market">>
    IN  trend \o season \o vol

NoPredictLocals == [crop_name |-> "", prediction_date |-> 0,
                    features |-> <<>>, model |-> None]

NoForecast == [active |-> FALSE]

\* an exception raised inside predict_price: logged and raised again
Raised(c, d, e) ==
    [op |-> "predict_price", kind |-> "error", error |-> e,
     crop_name |-> c, prediction_date |-> d]

\* what the caller keeps of the outcome it holds when it calls
\* predict_price(c, d): the outcome of the same call, if that is what it holds
Before(c, d) ==
    IF /\ ret.op = "predict_price"
       /\ ret.crop_name = c
       /\ ret.prediction_date = d
    THEN ret
    ELSE NoResult

\* the hand-over as it would be if get_price_forecast returned the
\* predictions made before a failure
FinishPartial(r) ==
    /\ cloc' = NoPredictLocals
    /\ IF fc.active
       THEN IF r.kind = "ok"
            THEN /\ fc' = [fc EXCEPT !.forecasts = Append(@, r), !.i = @ + 1]
                 /\ cpc' = "forecast_loop"
                 /\ UNCHANGED ret
            ELSE /\ fc' = NoForecast
                 /\ cpc' = "idle"
                 /\ ret' = [op |-> "get_price_forecast", kind |-> "ok",
                            crop_name |-> fc.crop_name, days |-> fc.days,
                            forecasts |-> fc.forecasts, called |-> fc.called]
       ELSE /\ cpc' = "idle"
            /\ ret' = r
            /\ UNCHANGED fc

\* predict_price's outcome r reaches its caller: get_price_forecast appends
\* a prediction and lets an exception pass; any other caller receives it
Finish(r) ==
    /\ cloc' = NoPredictLocals
    /\ IF fc.active
       THEN IF r.kind = "ok"
            THEN /\ fc' = [fc EXCEPT !.forecasts = Append(@, r), !.i = @ + 1]
                 /\ cpc' = "forecast_loop"
                 /\ UNCHANGED ret
            ELSE /\ fc' = NoForecast
                 /\ cpc' = "idle"
                 /\ ret' = [r EXCEPT !.op = "get_price_forecast"]
       ELSE /\ cpc' = "idle"
            /\ ret' = r
            /\ UNCHANGED fc

\* predict_price as it would be if a missing model gave a PricePrediction
\* with a default price instead of an error
PredictEnterPlaceholder(c, d) ==
    IF c \notin DOMAIN models \/ c \notin DOMAIN historical_data
    THEN Finish([op |-> "predict_price", kind |-> "ok", crop_name |-> c,
                 predicted_price |-> 0, confidence |-> ConfMin,
                 prediction_date |-> d, factors |-> <<>>,
                 recommendation |-> <<>>, model |-> None, scaler |-> None,
                 features |-> <<>>])
    ELSE /\ cloc' = [crop_name |-> c, prediction_date |-> d,
                     features |->
                        prepare_prediction_features(historical_data[c], d),
                     model |-> None]
         /\ cpc' = "read_model"
         /\ ret' = NoResult
         /\ UNCHANGED fc

\* predict_price(c, d) up to the feature vector: the availability check and
\* _prepare_prediction_features
PredictEnter(c, d) ==
    IF c \notin DOMAIN models
    THEN Finish(Raised(c, d, "ValueError: No model available"))
    ELSE IF c \notin DOMAIN historical_data
         THEN Finish(Raised(c, d, "KeyError"))
         ELSE /\ cloc' = [crop_name |-> c, prediction_date |-> d,
                          features |->
                             prepare_prediction_features(historical_data[c], d),
                          model |-> None]
              /\ cpc' = "read_model"
              /\ ret' = NoResult
              /\ UNCHANGED fc

\* the dates a caller passes to predict_price: 8 September 2025
Dates == {250}

\* predict_price(c, d): the call
PredictCall(c, d) ==
    /\ phase = "serving"
    /\ cpc = "idle"
    /\ prev' = Before(c, d)
    /\ PredictEnter(c, d)
    /\ UNCHANGED <<historical_data, models, scalers, label_encoders, phase,
                   loadIdx, nruns, tpc, tloc, now, used, file,
                   savedFrom,
                   market_prices>>

\* predict_price(c): prediction_date = datetime.now() + timedelta(days=1)
PredictCallDefault(c) == PredictCall(c, now + 1)

\* the prediction the caller received last
LastPrediction ==
    IF ret.op = "predict_price" /\ ret.kind = "ok" THEN ret ELSE prev

\* predict_price(c) by a caller that keeps the prediction it received last,
\* whatever the crop
PredictCallNext(c) ==
    /\ phase = "serving"
    /\ cpc = "idle"
    /\ prev' = LastPrediction
    /\ PredictEnter(c, now + 1)
    /\ UNCHANGED <<historical_data, models, scalers, label_encoders, phase,
                   loadIdx, nruns, tpc, tloc, now, used, file,
                   savedFrom,
                   market_prices>>

\* the prices of the points given to add_price_data
AppendPrices == {28}

\* add_price_data as it would be if it also put the point at the end of the
\* series in memory
AddPriceDataExtend(c, p) ==
    /\ phase = "serving"
    /\ Len(market_prices) < MaxAppend
    /\ \/ /\ market_prices' =
                 Append(market_prices,
                        [crop_name |-> c, price |-> p, date |-> now,
                         after |-> LastPrediction # NoResult])
          /\ historical_data' =
                 [k \in DOMAIN historical_data |->
                     IF k = c
                     THEN [historical_data[k] EXCEPT !.len = @ + 1]
                     ELSE historical_data[k]]
          /\ ret' = [op |-> "add_price_data", kind |-> "ok",
                     crop_name |-> c, logged |-> "added"]
       \/ /\ UNCHANGED <<market_prices, historical_data>>
          /\ ret' = [op |-> "add_price_data", kind |-> "ok",
                     crop_name |-> c, logged |-> "error"]
    /\ prev' = LastPrediction
    /\ UNCHANGED <<models, scalers, label_encoders, phase,
                   loadIdx, nruns, tpc, tloc, cpc, cloc, fc, now, used, file,
                   savedFrom>>

\* add_price_data(price_data): the INSERT into the market_prices table and
\* the commit, or a database error that the except clause logs; the method
\* returns None either way.  `after` notes, beside the row, whether the
\* caller held a prediction when it added the point.
AddPriceData(c, p) ==
    /\ phase = "serving"
    /\ Len(market_prices) < MaxAppend
    /\ \/ /\ market_prices' =
                 Append(market_prices,
                        [crop_name |-> c, price |-> p, date |-> now,
                         after |-> LastPrediction # NoResult])
          /\ ret' = [op |-> "add_price_data", kind |-> "ok",
                     crop_name |-> c, logged |-> "added"]
       \/ /\ UNCHANGED market_prices
          /\ ret' = [op |-> "add_price_data", kind |-> "ok",
                     crop_name |-> c, logged |-> "error"]
    /\ prev' = LastPrediction
    /\ UNCHANGED <<historical_data, models, scalers, label_encoders, phase,
                   loadIdx, nruns, tpc, tloc, cpc, cloc, fc, now, used, file,
                   savedFrom>>

\* the read as it would be if it took the model out of the registry
PredictReadModelPop ==
    /\ cpc = "read_model"
    /\ cloc.crop_name \in DOMAIN models
    /\ cloc' = [cloc EXCEPT !.model = models[cloc.crop_name]]
    /\ models' = [c \in (DOMAIN models) \ {cloc.crop_name} |-> models[c]]
    /\ cpc' = "read_scaler"
    /\ UNCHANGED <<historical_data, scalers, label_encoders, phase,
                   loadIdx, nruns, tpc, tloc, fc, ret, prev, now, used,
                   file, savedFrom,
                   market_prices>>

\* model = self.models[crop_name]
PredictReadModel ==
    /\ cpc = "read_model"
    /\ IF cloc.crop_name \in DOMAIN models
       THEN /\ cloc' = [cloc EXCEPT !.model = models[cloc.crop_name]]
            /\ cpc' = "read_scaler"
            /\ UNCHANGED <<fc, ret>>
       ELSE Finish(Raised(cloc.crop_name, cloc.prediction_date, "KeyError"))
    /\ UNCHANGED <<historical_data, models, scalers, label_encoders, phase,
                   loadIdx, nruns, tpc, tloc, prev, now, used, file,
                   savedFrom,
                   market_prices>>

\* the PricePrediction as it would be if the price read the random source
PredictionNoisy(c, d, features, model, scaler, noise, supply, demand) ==
    [op |-> "predict_price", kind |-> "ok",
     crop_name |-> c,
     predicted_price |->
         <<ModelPredict(model, ScalerTransform(scaler, features)), noise>>,
     confidence |-> calculate_confidence(historical_data[c], noise),
     prediction_date |-> d,
     factors |-> analyze_prediction_factors(historical_data[c], d,
                                            supply, demand),
     recommendation |->
         generate_price_recommendation(
             analyze_prediction_factors(historical_data[c], d,
                                        supply, demand)),
     model |-> model, scaler |-> scaler, features |-> features,
     noise |-> noise]

\* the PricePrediction predict_price builds from the model and the scaler it
\* read and from the draws of the random source
Prediction(c, d, features, model, scaler, noise, supply, demand) ==
    LET factors == analyze_prediction_factors(historical_data[c], d,
                                              supply, demand)
    IN  [op |-> "predict_price", kind |-> "ok",
         crop_name |-> c,
         predicted_price |->
             ModelPredict(model, ScalerTransform(scaler, features)),
         confidence |-> calculate_confidence(historical_data[c], noise),
         prediction_date |-> d,
         factors |-> factors,
         recommendation |-> generate_price_recommendation(factors),
         model |-> model, scaler |-> scaler, features |-> features,
         noise |-> noise]

\* scaler = self.scalers[crop_name], and the rest of predict_price
PredictReadScaler ==
    /\ cpc = "read_scaler"
    /\ IF cloc.crop_name \in DOMAIN scalers
       THEN IF cloc.model = None
            THEN Finish(Raised(cloc.crop_name, cloc.prediction_date,
                               "AttributeError"))
            ELSE \E rnd \in RandomDraws :
                    Finish(Prediction(cloc.crop_name, cloc.prediction_date,
                                      cloc.features, cloc.model,
                                      scalers[cloc.crop_name],
                                      rnd.noise, rnd.supply, rnd.demand))
       ELSE Finish(Raised(cloc.crop_name, cloc.prediction_date, "KeyError"))
    /\ UNCHANGED <<historical_data, models, scalers, label_encoders, phase,
                   loadIdx, nruns, tpc, tloc, prev, now, used, file,
                   savedFrom,
                   market_prices>>

----------------------------------------------------------------------------
(* The multi-day forecaster *)

\* get_price_forecast(c, days): forecasts = []
ForecastCall(c, days) ==
    /\ phase = "serving"
    /\ cpc = "idle"
    /\ fc' = [active |-> TRUE, crop_name |-> c, days |-> days, i |-> 0,
              forecasts |-> <<>>, called |-> now]
    /\ cpc' = "forecast_loop"
    /\ ret' = NoResult
    /\ prev' = NoResult
    /\ UNCHANGED <<historical_data, models, scalers, label_encoders, phase,
                   loadIdx, nruns, tpc, tloc, cloc, now, used, file,
                   savedFrom,
                   market_prices>>

\* for i in range(days): prediction_date = datetime.now() +
\* timedelta(days=i+1), and the call of predict_price; return forecasts
ForecastLoop ==
    /\ cpc = "forecast_loop"
    /\ IF fc.i < fc.days
       THEN PredictEnter(fc.crop_name, now + fc.i + 1)
       ELSE /\ ret' = [op |-> "get_price_forecast", kind |-> "ok",
                       crop_name |-> fc.crop_name, days |-> fc.days,
                       forecasts |-> fc.forecasts, called |-> fc.called]
            /\ fc' = NoForecast
            /\ cpc' = "idle"
            /\ UNCHANGED cloc
    /\ UNCHANGED <<historical_data, models, scalers, label_encoders, phase,
                   loadIdx, nruns, tpc, tloc, prev, now, used, file,
                   savedFrom,
                   market_prices>>

\* time passes: the clock reaches the next day
Tick ==
    /\ used.ticks < MaxTicks
    /\ now' = now + 1
    /\ used' = [used EXCEPT !.ticks = @ + 1]
    /\ UNCHANGED <<historical_data, models, scalers, label_encoders, phase,
                   loadIdx, nruns, tpc, tloc, cpc, cloc, fc, ret, prev,
                   file, savedFrom,
                   market_prices>>

----------------------------------------------------------------------------
(* Persistence *)

NoFile == [exists |-> FALSE]

\* the keys of the dict save_models dumps
Parts == {"models", "scalers", "label_encoders"}

\* save_models(filepath): the call
SaveCall ==
    /\ phase = "serving"
    /\ cpc = "idle"
    /\ cpc' = "save_models"
    /\ ret' = NoResult
    /\ prev' = NoResult
    /\ UNCHANGED <<historical_data, models, scalers, label_encoders, phase,
                   loadIdx, nruns, tpc, tloc, cloc, fc, now, used, file,
                   savedFrom,
                   market_prices>>

\* save_models' body: joblib.dump of the three dicts; an exception (a path
\* that cannot be written) is logged and swallowed
SaveModels ==
    /\ cpc = "save_models"
    /\ \/ /\ file' = [exists |-> TRUE, readable |-> TRUE, parts |-> Parts,
                      models |-> models, scalers |-> scalers,
                      label_encoders |-> label_encoders]
          /\ savedFrom' = historical_data
          /\ ret' = [op |-> "save_models", kind |-> "ok", logged |-> "saved"]
       \/ /\ UNCHANGED <<file, savedFrom>>
          /\ ret' = [op |-> "save_models", kind |-> "ok", logged |-> "error"]
    /\ cpc' = "idle"
    /\ UNCHANGED <<historical_data, models, scalers, label_encoders, phase,
                   loadIdx, nruns, tpc, tloc, cloc, fc, prev, now, used,
                   market_prices>>

\* the artifact is truncated, or replaced by one of a schema without part k
Damage(k) ==
    /\ file.exists /\ file.readable /\ file.parts = Parts
    /\ \/ /\ k = "truncated"
          /\ file' = [file EXCEPT !.readable = FALSE]
       \/ /\ k \in Parts
          /\ file' = [file EXCEPT !.parts = @ \ {k}]
    /\ UNCHANGED <<historical_data, models, scalers, label_encoders, phase,
                   loadIdx, nruns, tpc, tloc, cpc, cloc, fc, ret, prev,
                   now, used, savedFrom,
                   market_prices>>

\* load_models(filepath): the call
LoadCall ==
    /\ phase = "serving"
    /\ cpc = "idle"
    /\ cpc' = "load_models"
    /\ ret' = NoResult
    /\ prev' = NoResult
    /\ UNCHANGED <<historical_data, models, scalers, label_encoders, phase,
                   loadIdx, nruns, tpc, tloc, cloc, fc, now, used, file,
                   savedFrom,
                   market_prices>>

\* the registry as load_models would leave it if it read the models only
LoadedRegistryModelsOnly(f, reg) ==
    LET ok1 == f.exists /\ f.readable /\ "models" \in f.parts
    IN  [models |-> IF ok1 THEN f.models ELSE reg.models,
         scalers |-> reg.scalers,
         label_encoders |-> reg.label_encoders,
         logged |-> IF ok1 THEN "loaded" ELSE "error"]

\* the registry after load_models' three assignments, each made only if
\* every statement before it succeeded
LoadedRegistry(f, reg) ==
    LET ok0 == f.exists /\ f.readable
        ok1 == ok0 /\ "models" \in f.parts
        ok2 == ok1 /\ "scalers" \in f.parts
        ok3 == ok2 /\ "label_encoders" \in f.parts
    IN  [models |-> IF ok1 THEN f.models ELSE reg.models,
         scalers |-> IF ok2 THEN f.scalers ELSE reg.scalers,
         label_encoders |-> IF ok3 THEN f.label_encoders
                            ELSE reg.label_encoders,
         logged |-> IF ok3 THEN "loaded" ELSE "error"]

Registry == [models |-> models, scalers |-> scalers,
             label_encoders |-> label_encoders]

\* load_models' body: joblib.load and the three assignments; an exception
\* is logged and swallowed
LoadModels ==
    /\ cpc = "load_models"
    /\ LET r == LoadedRegistry(file, Registry)
       IN  /\ models' = r.models
           /\ scalers' = r.scalers
           /\ label_encoders' = r.label_encoders
           /\ ret' = [op |-> "load_models", kind |-> "ok",
                      logged |-> r.logged]
    /\ cpc' = "idle"
    /\ UNCHANGED <<historical_data, phase, loadIdx, nruns, tpc, tloc,
                   cloc, fc, prev, now, used, file, savedFrom,
                   market_prices>>

----------------------------------------------------------------------------
(* Construction *)

\* the clock when the predictor is constructed: 31 May 2025
StartDays == {150}

\* __init__ up to load_historical_data's loop: the three dicts are empty
\* and the series, one of `feeds`, are in place
InitFrom(feeds) ==
    /\ historical_data \in feeds
    /\ models = EmptyDict
    /\ scalers = EmptyDict
    /\ label_encoders = EmptyDict
    /\ phase = "constructing"
    /\ loadIdx = 1
    /\ nruns = 0
    /\ tpc = "idle"
    /\ tloc = NoTrainLocals
    /\ cpc = "idle"
    /\ cloc = NoPredictLocals
    /\ fc = NoForecast
    /\ ret = NoResult
    /\ prev = NoResult
    /\ now \in StartDays
    /\ used = [retrain |-> 0, restart |-> 0, ticks |-> 0]
    /\ file = NoFile
    /\ savedFrom = EmptyDict
    /\ market_prices = <<>>

Init == InitFrom(Feeds)

\* the process is started again: a newly constructed predictor, whose
\* series _generate_historical_prices draws afresh
Restart ==
    /\ phase = "serving"
    /\ cpc = "idle"
    /\ tpc = "idle"
    /\ used.restart < MaxRestart
    /\ used' = [used EXCEPT !.restart = @ + 1]
    /\ historical_data' \in {h \in Feeds : \A c \in Crops : h[c] \in Generated}
    /\ models' = EmptyDict
    /\ scalers' = EmptyDict
    /\ label_encoders' = EmptyDict
    /\ phase' = "constructing"
    /\ loadIdx' = 1
    /\ ret' = NoResult
    /\ prev' = NoResult
    /\ UNCHANGED <<nruns, tpc, tloc, cpc, cloc, fc, now, file, savedFrom,
                   market_prices>>

\* the steps inside __init__, _train_crop_model and predict_price
TrainSteps ==
    \/ LoadHistoricalStep
    \/ ConstructDone
    \/ TrainStoreModel
    \/ TrainStoreScaler

\* the steps of a prediction in progress
PredictSteps ==
    \/ PredictReadModel
    \/ PredictReadScaler

Steps == TrainSteps \/ PredictSteps

\* no call is in progress
Quiet == tpc = "idle" /\ cpc = "idle"

\* training and prediction by one caller: a call starts when the call
\* before it has returned (the handlers of main_api_server.py run one at a
\* time on the event loop)
Next ==
    \/ Steps
    \/ Quiet /\ \E c \in CropNames : Retrain(c)
    \/ Quiet /\ \E c \in CropNames, d \in Dates : PredictCall(c, d)
    \/ Quiet /\ \E c \in CropNames : PredictCallDefault(c)

Spec == Init /\ [][Next]_vars

\* every series is a generated one of the steady course
InitGenerated ==
    Init /\ \A c \in Crops : historical_data[c] = [len |-> NumDays, seed |-> 0]

\* a thread retrains while another predicts
NextThreads ==
    \/ Steps
    \/ \E c \in Crops : Retrain(c)
    \/ \E c \in Crops : PredictCallDefault(c)

SpecThreads == InitGenerated /\ [][NextThreads]_vars

\* every series follows the steady course, whatever its length
InitSteady == Init /\ \A c \in Crops : historical_data[c].seed = 0

\* the multi-day forecast, while the clock advances
NextForecast ==
    \/ Steps
    \/ Quiet /\ \E c \in CropNames, days \in (-1)..MaxDays : ForecastCall(c, days)
    \/ Quiet /\ \E c \in Crops : PredictCallDefault(c)
    \/ ForecastLoop
    \/ Tick

SpecForecast == InitSteady /\ [][NextForecast]_vars

\* the persistence of the registry and the restart of the process
PersistSteps ==
    \/ Quiet /\ SaveCall
    \/ SaveModels
    \/ \E k \in Parts \cup {"truncated"} : Damage(k)
    \/ Quiet /\ LoadCall
    \/ LoadModels
    \/ Restart

NextPersist == TrainSteps \/ PersistSteps

SpecPersist == InitGenerated /\ [][NextPersist]_vars

\* predictions before the save and after the load in a restarted process
NextReload ==
    \/ NextPersist
    \/ PredictSteps
    \/ Quiet /\ \E c \in Crops, d \in Dates : PredictCall(c, d)

SpecReload == InitGenerated /\ [][NextReload]_vars

\* a caller that compares the predictions it receives and adds price points
NextCompare ==
    \/ Steps
    \/ Quiet /\ \E c \in Crops : PredictCallNext(c)
    \/ Quiet /\ \E c \in CropNames, p \in AppendPrices : AddPriceData(c, p)
SpecCompare == InitSteady /\ [][NextCompare]_vars

\* series of every course, and predictions of the first crop's price for the
\* 15th of the months at the ends of the three seasons
Courses == {0, 1, 2, 3}
FeedsCourses ==
    {h \in [Crops -> [len : Lens, seed : Courses]] :
        \A i \in 2..Len(CropOrder) :
            h[CropOrder[i]] = [len |-> NumDays, seed |-> 0]}
MonthDates == {MonthStart(m) + 14 : m \in {2, 3, 5, 6, 10, 11}}
InitCourses == InitFrom(FeedsCourses)
NextCourses ==
    \/ Steps
    \/ Quiet /\ \E d \in MonthDates : PredictCall(CropOrder[1], d)
SpecCourses == InitCourses /\ [][NextCourses]_vars

\* training, saving and loading with files that stay as they were written
NextIntact ==
    \/ TrainSteps
    \/ Quiet /\ SaveCall
    \/ SaveModels
    \/ Quiet /\ LoadCall
    \/ LoadModels
    \/ Restart
    \/ Quiet /\ Retrain(CropOrder[1])
SpecIntact == InitGenerated /\ [][NextIntact]_vars

----------------------------------------------------------------------------
(* The properties *)

\* the outcome held is a PricePrediction returned by predict_price
Predicted(r) == r.op = "predict_price" /\ r.kind = "ok"

\* C1: a commodity whose series yields fewer than 100 valid feature rows
\* has no model in the registry, its training ends with the
\* "insufficient data" line and nothing stored, and a predict_price call on
\* it raises the "No model available" error instead of returning a
\* prediction.  Checked under Spec.
C1_SkipRule ==
    \A c \in Crops :
        Cardinality(ValidRows(historical_data[c])) < MinRows =>
            /\ c \notin DOMAIN models
            /\ (ret.op = "_train_crop_model" /\ ret.crop_name = c)
                   => ret.logged = "insufficient data"
            /\ (ret.op = "predict_price" /\ ret.crop_name = c)
                   => /\ ret.kind = "error"
                      /\ ret.error = "ValueError: No model available"

\* C1's case: the predictor serves, and a predict_price call on a commodity
\* with 99 valid rows has raised
C1_Witness ==
    /\ phase = "serving"
    /\ ret.op = "predict_price"
    /\ ret.kind = "error"
    /\ ret.crop_name \in Crops
    /\ Cardinality(ValidRows(historical_data[ret.crop_name])) = MinRows - 1

\* C3: the model _train_crop_model stores is a candidate whose test score no
\* other candidate exceeds, and every candidate evaluated before it in the
\* order random_forest, gradient_boosting, linear_regression has a strictly
\* lower score.  Checked under Spec, on the step that stores the model.
C3_BestCandidateStored ==
    [][(tpc = "store_model" /\ tpc' = "store_scaler") =>
          LET sc == tloc.scores
              stored == models'[tloc.crop_name].kind
          IN  /\ stored \in CandNames
              /\ \A n \in CandNames : sc[n] <= sc[stored]
              /\ \A i, j \in 1..Len(CandOrder) :
                    (CandOrder[j] = stored /\ i < j)
                        => sc[CandOrder[i]] < sc[stored]]_vars

\* C3's case: a training run has stored a model that is not the first
\* candidate of the order
C3_Witness ==
    /\ tpc = "store_scaler"
    /\ tloc.crop_name \in DOMAIN models
    /\ models[tloc.crop_name] = tloc.best_model
    /\ models[tloc.crop_name].kind = "gradient_boosting"

\* C4: two predict_price calls for the same commodity and date, made one
\* after the other with the series and the registry entry unchanged, return
\* the same predicted_price.  Checked under Spec.
C4_PriceDeterministic ==
    (/\ Predicted(prev) /\ Predicted(ret)
     /\ ret.model = prev.model /\ ret.scaler = prev.scaler)
        => ret.predicted_price = prev.predicted_price

\* C4's case: the second of two such calls has returned, and the random
\* source gave the two calls different draws
C4_Witness ==
    /\ Predicted(prev) /\ Predicted(ret)
    /\ ret.model = prev.model /\ ret.scaler = prev.scaler
    /\ ret.confidence # prev.confidence

\* C5, as stated: two such calls return PricePredictions that agree in
\* every field
C5_WholeDeterministic ==
    (/\ Predicted(prev) /\ Predicted(ret)
     /\ ret.model = prev.model /\ ret.scaler = prev.scaler)
        => /\ ret.predicted_price = prev.predicted_price
           /\ ret.confidence = prev.confidence
           /\ ret.factors = prev.factors
           /\ ret.recommendation = prev.recommendation

\* C5, amended: two such calls agree in predicted_price, prediction_date,
\* the seasonal_demand, price_trend and market_volatility factors and the
\* recommendation (the confidence and the two pressure factors are drawn
\* from the random source).  Checked under Spec.
C5_DeterministicFields ==
    (/\ Predicted(prev) /\ Predicted(ret)
     /\ ret.model = prev.model /\ ret.scaler = prev.scaler)
        => /\ ret.predicted_price = prev.predicted_price
           /\ ret.prediction_date = prev.prediction_date
           /\ ret.factors.seasonal_demand = prev.factors.seasonal_demand
           /\ ret.factors.price_trend = prev.factors.price_trend
           /\ ret.factors.market_volatility = prev.factors.market_volatility
           /\ ret.recommendation = prev.recommendation

\* C5's case: the second call has returned with other pressure factors than
\* the first
C5_Witness ==
    /\ Predicted(prev) /\ Predicted(ret)
    /\ ret.model = prev.model /\ ret.scaler = prev.scaler
    /\ ret.factors.supply_pressure # prev.factors.supply_pressure
    /\ ret.factors.demand_pressure # prev.factors.demand_pressure

\* the PricePredictions a caller holds or a forecast has gathered
Held ==
    (IF Predicted(ret) THEN {ret} ELSE {})
    \cup (IF ret.op = "get_price_forecast" /\ ret.kind = "ok"
          THEN {ret.forecasts[i] : i \in 1..Len(ret.forecasts)} ELSE {})
    \cup (IF fc.active
          THEN {fc.forecasts[i] : i \in 1..Len(fc.forecasts)} ELSE {})

\* C6: the confidence of every PricePrediction returned by predict_price or
\* contained in a forecast lies in [0.5, 0.95].  Checked under SpecForecast.
C6_ConfidenceRange ==
    \A r \in Held : ConfMin <= r.confidence /\ r.confidence <= ConfMax

\* C6's case: a forecast on a series of more than 1000 points has returned
\* with a prediction whose confidence was clipped at 0.95 and one below it
C6_Witness ==
    /\ ret.op = "get_price_forecast" /\ ret.kind = "ok"
    /\ ret.crop_name \in DOMAIN historical_data
    /\ historical_data[ret.crop_name].len > ManyPoints
    /\ \E i, j \in 1..Len(ret.forecasts) :
          /\ ret.forecasts[i].confidence = ConfMax
          /\ ret.forecasts[j].confidence < ConfMax

\* C2, as stated: a predict_price that interleaves with _train_crop_model
\* on the same commodity returns a prediction made with the model and the
\* scaler of one training run, and never fails for a scaler that is not yet
\* stored (the only error it may raise is "No model available").  Stated
\* for SpecThreads.
C2_AtomicPublish ==
    ret.op = "predict_price" =>
        /\ ret.kind = "ok" => ret.model.run = ret.scaler.run
        /\ ret.kind = "error" => ret.error = "ValueError: No model available"

\* C7, as stated: get_price_forecast(c, N) with N >= 1 on a commodity with
\* a model returns N predictions, the i-th dated i days after the day of
\* the call, while the clock advances.  Stated for SpecForecast.
C7_ForecastDates ==
    (ret.op = "get_price_forecast" /\ ret.kind = "ok" /\ ret.days >= 1)
        => /\ Len(ret.forecasts) = ret.days
           /\ \A i \in 1..Len(ret.forecasts) :
                 ret.forecasts[i].prediction_date = ret.called + i

\* C8, as stated: get_price_forecast(c, days) with days < 1 returns no
\* sequence (it fails with InvalidParameter).  Stated for SpecForecast.
C8_InvalidDays ==
    (ret.op = "get_price_forecast" /\ ret.kind = "ok") => ret.days >= 1

\* the price the predictor that wrote the artifact gave for commodity c and
\* date d just before save_models
SavedPrice(c, d) ==
    ModelPredict(file.models[c],
                 ScalerTransform(file.scalers[c],
                     prepare_prediction_features(savedFrom[c], d)))

\* C9, as stated: a predictor whose registry is the one load_models read
\* from the artifact returns, for every saved commodity and date, the price
\* the saving predictor gave.  Stated for SpecReload.
C9_RoundTrip ==
    (/\ Predicted(ret)
     /\ file.exists
     /\ models = file.models /\ scalers = file.scalers
     /\ ret.model = file.models[ret.crop_name]
     /\ ret.scaler = file.scalers[ret.crop_name])
        => ret.predicted_price = SavedPrice(ret.crop_name, ret.prediction_date)

\* C10, as stated: a load_models that fails leaves models, scalers and
\* label_encoders as they were before the call.  Stated for SpecPersist, on
\* the step that ends the call.
C10_FailedLoadKeepsRegistry ==
    [][(cpc = "load_models" /\ cpc' = "idle" /\ ret'.logged = "error")
          => /\ models' = models
             /\ scalers' = scalers
             /\ label_encoders' = label_encoders]_vars

\* C11, as stated: a load_models that fails (the artifact is missing,
\* unreadable or lacks a part) ends with an error for its caller, so that
\* the caller can tell it from a successful load.  Stated for SpecPersist.
C11_LoadFailureReported ==
    (ret.op = "load_models" /\ ret.logged = "error") => ret.kind = "error"

\* C12: during load_historical_data no step removes or changes the registry
\* entry of a commodity other than the one being stored, a training that
\* stores nothing (a skip or a swallowed exception) is followed by the next
\* commodity of the order, and the predictor is handed over only when every
\* commodity of the order has had its training call.  Checked under Spec.
C12_TrainingIsolated ==
    [][phase = "constructing" =>
          /\ \A c \in DOMAIN models :
                /\ c \in DOMAIN models'
                /\ (c # tloc.crop_name => models'[c] = models[c])
          /\ \A c \in DOMAIN scalers :
                /\ c \in DOMAIN scalers'
                /\ (c # tloc.crop_name => scalers'[c] = scalers[c])
          /\ (ret'.op = "_train_crop_model" /\ ret'.logged # "trained"
                 /\ ret' # ret)
                => (phase' = "constructing" /\ loadIdx' = loadIdx + 1)
          /\ phase' = "serving" => nruns = Len(CropOrder)]_vars

\* C12's case: the predictor has been handed over, the first commodity's
\* training stored nothing and the second commodity has its model
C12_Witness ==
    /\ phase = "serving"
    /\ CropOrder[1] \notin DOMAIN models
    /\ CropOrder[2] \in DOMAIN models
    /\ CropOrder[2] \in DOMAIN scalers

\* C13: an outcome of predict_price is either an error or a PricePrediction
\* whose price is the stored model's value at the scaled feature vector of
\* the commodity's series; a call on a commodity without a model, and a
\* call that finds no scaler, end with an error.  Checked under SpecThreads.
C13_FailuresPropagate ==
    ret.op = "predict_price" =>
        \/ ret.kind = "error"
        \/ /\ ret.kind = "ok"
           /\ ret.model # None
           /\ ret.scaler # None
           /\ ret.crop_name \in DOMAIN historical_data
           /\ ret.predicted_price =
                 ModelPredict(ret.model,
                     ScalerTransform(ret.scaler,
                         prepare_prediction_features(
                             historical_data[ret.crop_name],
                             ret.prediction_date)))

\* C13's case: predict_price found the model of a commodity but no scaler,
\* and raised
C13_Witness ==
    /\ ret.op = "predict_price"
    /\ ret.kind = "error"
    /\ ret.error = "KeyError"
    /\ ret.crop_name \in DOMAIN models

\* C14, as stated: predict_price on a commodity without a series fails
\* with another error than the one it raises for a commodity that has a
\* series but no model ("No model available").  Stated for Spec.
C14_UnknownCommodityDistinct ==
    (/\ ret.op = "predict_price"
     /\ ret.kind = "error"
     /\ ret.crop_name \notin DOMAIN historical_data)
        => ret.error # "ValueError: No model available"

\* C15: a step of _train_crop_model(c) leaves every series as it is, and
\* leaves the model and the scaler of every other commodity as they are,
\* present or absent.  Checked under Spec.
C15_TrainFrame ==
    [][(tpc # "idle" \/ tpc' # "idle" \/ nruns' # nruns) =>
          LET c == IF tpc = "idle" THEN "" ELSE tloc.crop_name
          IN  /\ historical_data' = historical_data
              /\ label_encoders' = label_encoders
              /\ \A d \in CropNames \ {c} :
                    /\ (d \in DOMAIN models) = (d \in DOMAIN models')
                    /\ (d \in DOMAIN scalers) = (d \in DOMAIN scalers')
                    /\ d \in DOMAIN models => models'[d] = models[d]
                    /\ d \in DOMAIN scalers => scalers'[d] = scalers[d]]_vars

\* C15's case: a retraining of the second commodity is storing its model
\* while the first commodity has its model and scaler
C15_Witness ==
    /\ phase = "serving"
    /\ tpc = "store_scaler"
    /\ tloc.crop_name = CropOrder[2]
    /\ CropOrder[1] \in DOMAIN models
    /\ CropOrder[1] \in DOMAIN scalers

\* rows <<first, last>> as offsets from the row t the features are for
Relative(rows, t) == <<rows[1] - t, rows[2] - t>>

\* C16, as stated: the training table and the prediction vector have the
\* same columns in the same order, and every price column is made of the
\* observations at the same offsets from the row it describes: for the
\* training table the row itself, for the prediction vector the row that
\* would follow the series.  Stated for Spec.
C16_FeatureEquivalence ==
    /\ feature_columns = prediction_columns
    /\ \A c \in DOMAIN models :
          LET ser == historical_data[c]
          IN  \A i \in {FirstValid, ser.len - 1} :
                 \A f \in PriceColumns :
                    Relative(TrainObs(i)[f], i)
                        = Relative(PredictObs(ser)[f], ser.len)

\* C17, as stated: the vector predict_price hands to the stored model is in
\* the representation (standardised or raw) of the rows the model was
\* fitted on.  Stated for Spec.
C17_ScalingRepresentation ==
    Predicted(ret) => ret.predicted_price.at.rows = ret.model.rows

\* the PricePredictions a forecast has gathered
ForecastEntries ==
    (IF ret.op = "get_price_forecast" /\ ret.kind = "ok"
     THEN {ret.forecasts[i] : i \in 1..Len(ret.forecasts)} ELSE {})
    \cup (IF fc.active
          THEN {fc.forecasts[i] : i \in 1..Len(fc.forecasts)} ELSE {})

\* C18: in every entry of a forecast the lag-1 feature is the last price of
\* the commodity's series, and every price column is the one computed from
\* that series: no predicted value enters the features of a later day.
\* Checked under SpecForecast.
C18_NaiveForecast ==
    \A r \in ForecastEntries :
        LET ser == historical_data[r.crop_name]
            expected == prepare_prediction_features(ser, r.prediction_date)
        IN  \A k \in 1..Len(prediction_columns) :
               /\ prediction_columns[k] = "price_lag_1"
                     => r.features[k] = <<Price(ser, ser.len - 1), 1>>
               /\ prediction_columns[k] \in PriceColumns
                     => r.features[k] = expected[k]

\* C18's case: a forecast of two or more days has returned, and its first
\* two entries, of different dates, have the same price columns
C18_Witness ==
    /\ ret.op = "get_price_forecast" /\ ret.kind = "ok"
    /\ Len(ret.forecasts) >= 2
    /\ ret.forecasts[1].prediction_date # ret.forecasts[2].prediction_date
    /\ \A k \in 1..Len(prediction_columns) :
          prediction_columns[k] \in PriceColumns
              => ret.forecasts[1].features[k] = ret.forecasts[2].features[k]

\* C19: no step of a predict_price or get_price_forecast call, successful
\* or failing, changes models, scalers, label_encoders or a series.
\* Checked under SpecForecast.
C19_PureReads ==
    [][(cpc # "idle" \/ cpc' # "idle" \/ fc' # fc)
          => UNCHANGED <<models, scalers, label_encoders,
                         historical_data>>]_vars

\* C19's case: a forecast on a predictor that holds models has failed
C19_Witness ==
    /\ ret.op = "get_price_forecast"
    /\ ret.kind = "error"
    /\ models # EmptyDict
    /\ scalers # EmptyDict

\* C20: the training table of a series of L rows is made of the rows 30 to
\* L - 1, max(0, L - 30) of them, and _train_crop_model skips the commodity
\* exactly when L < 130.  Checked under Spec.
C20_ValidRowsFrom30 ==
    /\ \A c \in Crops :
          LET ser == historical_data[c]
              L == ser.len
          IN  /\ Cardinality(ValidRows(ser)) = Max(0, L - 30)
              /\ 29 \notin ValidRows(ser)
              /\ L > 30 => (30 \in ValidRows(ser) /\ (L - 1) \in ValidRows(ser))
              /\ L \notin ValidRows(ser)
              /\ Insufficient(ser) = (L < 130)
    /\ ret.op = "_train_crop_model" /\ ret.crop_name \in Crops
          => (ret.logged = "insufficient data")
                = (historical_data[ret.crop_name].len < 130)
             \/ ret.logged = "error"

\* C20's case: the training of a series of 129 rows has been skipped
C20_Witness ==
    /\ ret.op = "_train_crop_model"
    /\ ret.logged = "insufficient data"
    /\ historical_data[ret.crop_name].len = 129

\* C21, as stated: the lag columns of the vector of a prediction are the
\* prices of the rows dated 1, 7 and 30 days before the prediction date.
\* Stated for Spec.
C21_LagsByDate ==
    Predicted(ret) =>
        LET ser == historical_data[ret.crop_name]
            obs == PredictObs(ser)
        IN  /\ obs.price_lag_1[1] = obs.price_lag_1[2]
            /\ RowDay(ser, obs.price_lag_1[1]) = ret.prediction_date - 1
            /\ obs.price_lag_7[1] = obs.price_lag_7[2]
            /\ RowDay(ser, obs.price_lag_7[1]) = ret.prediction_date - 7
            /\ obs.price_lag_30[1] = obs.price_lag_30[2]
            /\ RowDay(ser, obs.price_lag_30[1]) = ret.prediction_date - 30

\* C22: the recommendation of a prediction is made of one trend sentence
\* (upward above 0.1, declining below -0.1, stable otherwise), then a
\* seasonal sentence exactly when the month of the prediction date is not
\* March, April or May (low demand June to October, high demand November to
\* February), then one volatility sentence (high above 0.2, stable
\* otherwise), whatever the two pressure factors are.  Checked under
\* SpecCourses.
C22_RecommendationRule ==
    Predicted(ret) =>
        LET f == ret.factors
            m == MonthOf(ret.prediction_date)
            rec == ret.recommendation
            ser == historical_data[ret.crop_name]
            first == Price(ser, ser.len - 30)
            last == Price(ser, ser.len - 1)
            v == f.market_volatility
        IN  /\ Len(rec) = IF m \in {3, 4, 5} THEN 2 ELSE 3
            /\ rec[1] = IF 10 * (last - first) > first
                        THEN "trending upward"
                        ELSE IF 10 * (last - first) < -first
                             THEN "declining"
                             ELSE "stable"
            /\ m \in {6, 7, 8, 9, 10} => rec[2] = "low seasonal demand"
            /\ m \in {11, 12, 1, 2} => rec[2] = "high seasonal demand"
            /\ rec[Len(rec)] = IF v[2] > 0 /\ v[1] > v[2] \div 25
                               THEN "high volatility"
                               ELSE "stable market"
            /\ \A rnd \in RandomDraws :
                  generate_price_recommendation(
                      [f EXCEPT !.supply_pressure = rnd.supply,
                                !.demand_pressure = rnd.demand]) = rec

\* C22's case: a prediction for a month of the summer season on a series of
\* alternating prices: two sentences, a trend that is not stable and a high
\* volatility
C22_Witness ==
    /\ Predicted(ret)
    /\ MonthOf(ret.prediction_date) \in {3, 4, 5}
    /\ Len(ret.recommendation) = 2
    /\ ret.recommendation[1] # "stable"
    /\ ret.recommendation[2] = "high volatility"

\* C23, as stated: while get_price_forecast has not yet handed anything to
\* its consumer, no predict_price call has been made for it.  Stated for
\* SpecForecast.
C23_LazyForecast ==
    fc.active => /\ cpc = "forecast_loop"
                 /\ fc.i = 0
                 /\ Len(fc.forecasts) = 0

\* C24, as stated: of two predictions, the one on the longer series has no
\* lower confidence.  Stated for SpecCompare.
C24_MonotoneConfidence ==
    (Predicted(prev) /\ Predicted(ret)) =>
        LET short == historical_data[prev.crop_name].len
            long == historical_data[ret.crop_name].len
        IN  /\ short < long => prev.confidence <= ret.confidence
            /\ short > long => prev.confidence >= ret.confidence

\* C24, amended: for one and the same value of the random perturbation, the
\* confidence of a longer series is never lower than that of a shorter one,
\* for every two series of the store and for every two predictions
\* returned; with different perturbations nothing is promised.  Checked
\* under SpecCompare.
C24_MonotoneBase ==
    /\ \A c1, c2 \in Crops, rnd \in RandomDraws :
          historical_data[c1].len <= historical_data[c2].len
              => calculate_confidence(historical_data[c1], rnd.noise)
                    <= calculate_confidence(historical_data[c2], rnd.noise)
    /\ (Predicted(prev) /\ Predicted(ret) /\ prev.noise = ret.noise) =>
          LET short == historical_data[prev.crop_name].len
              long == historical_data[ret.crop_name].len
          IN  /\ short < long => prev.confidence <= ret.confidence
              /\ short > long => prev.confidence >= ret.confidence

\* C24's case: two predictions with the same perturbation, the second on a
\* longer series and of a higher confidence
C24_Witness ==
    /\ Predicted(prev) /\ Predicted(ret)
    /\ prev.noise = ret.noise
    /\ historical_data[prev.crop_name].len < historical_data[ret.crop_name].len
    /\ prev.confidence < ret.confidence

\* C25: a step of add_price_data changes nothing but the market_prices
\* table: the series in memory, the models and the scalers stay as they
\* were, and the call returns without raising; and two predictions of the
\* same commodity and date, whatever was added between them, are made from
\* the same feature vector.  Checked under SpecCompare.
C25_AppendFrame ==
    [][/\ (market_prices' # market_prices \/ ret'.op = "add_price_data")
            => /\ UNCHANGED <<historical_data, models, scalers>>
               /\ ret'.op = "add_price_data"
               /\ ret'.kind = "ok"
       /\ (/\ Predicted(prev') /\ Predicted(ret')
           /\ prev'.crop_name = ret'.crop_name
           /\ prev'.prediction_date = ret'.prediction_date)
            => ret'.features = prev'.features]_vars

\* C25's case: a price point of a commodity was added by a caller that held
\* a prediction, and a prediction of that commodity has returned since, the
\* caller holding an earlier one of the same commodity
C25_Witness ==
    /\ Predicted(prev) /\ Predicted(ret)
    /\ prev.crop_name = ret.crop_name
    /\ Len(market_prices) > 0
    /\ market_prices[1].crop_name = ret.crop_name
    /\ market_prices[1].after

\* C26: a _train_crop_model call that fails or is skipped returns to its
\* caller without raising and leaves models and scalers as they were, the
\* commodity being in both or in neither.  Checked under Spec.
C26_FailedTrainFrame ==
    [][(nruns' # nruns /\ tpc' = "idle")
          => /\ UNCHANGED <<models, scalers>>
             /\ ret'.op = "_train_crop_model"
             /\ ret'.kind = "ok"
             /\ ret'.logged \in {"error", "insufficient data"}
             /\ (ret'.crop_name \in DOMAIN models')
                   = (ret'.crop_name \in DOMAIN scalers')]_vars

\* C26's case: a retrain of a commodity that has a model and a scaler has
\* failed, and both are still there
C26_Witness ==
    /\ ret.op = "_train_crop_model"
    /\ ret.logged = "error"
    /\ used.retrain > 0
    /\ ret.crop_name \in DOMAIN models
    /\ ret.crop_name \in DOMAIN scalers

\* C27: whenever no call is running, after any sequence of trainings, saves
\* and loads of files that save_models wrote, models and scalers have the
\* same keys.  Checked under SpecIntact.
C27_KeySetsEqual ==
    Quiet => DOMAIN models = DOMAIN scalers

\* C27's case: a restarted process has loaded a file that holds models
C27_Witness ==
    /\ Quiet
    /\ used.restart > 0
    /\ ret.op = "load_models"
    /\ ret.logged = "loaded"
    /\ models # EmptyDict
    /\ models = file.models
    /\ scalers = file.scalers

\* C28: the model _train_crop_model is about to store, and every model in
\* the registry, is a fitted candidate and never None, whatever the scores
\* were; and no predict_price call fails on a model that is None.  Checked
\* under Spec.
C28_StoredModelUsable ==
    /\ tpc = "store_model"
          => /\ tloc.best_model # None
             /\ tloc.best_model.kind \in CandNames
    /\ \A c \in DOMAIN models :
          /\ models[c] # None
          /\ models[c].kind \in CandNames
    /\ ~ (/\ ret.op = "predict_price"
          /\ ret.kind = "error"
          /\ ret.error = "AttributeError")

\* C28's case: every candidate had the lowest score, and the first one is
\* about to be stored
C28_Witness ==
    /\ tpc = "store_model"
    /\ \A n \in CandNames : tloc.scores[n] = 0
    /\ tloc.best_model.kind = CandOrder[1]

\* C29: a get_price_forecast call that fails gives its caller the error of
\* predict_price and no list; a call with days >= 1 on a commodity without
\* a model fails with "No model available" before any prediction is made,
\* and a call that returns a list returns one of `days` predictions.
\* Checked under SpecForecast.
C29_ForecastAllOrNothing ==
    /\ (ret.op = "get_price_forecast" /\ ret.kind = "error")
          => /\ "forecasts" \notin DOMAIN ret
             /\ ret.error = "ValueError: No model available"
             /\ ret.crop_name \notin DOMAIN models
    /\ (ret.op = "get_price_forecast" /\ ret.kind = "ok" /\ ret.days >= 1)
          => /\ ret.crop_name \in DOMAIN models
             /\ Len(ret.forecasts) = ret.days
    /\ (fc.active /\ fc.days >= 1 /\ fc.crop_name \notin DOMAIN models)
          => /\ fc.i = 0
             /\ fc.forecasts = <<>>

\* C29's case: a forecast of a commodity that has a series but no model has
\* failed
C29_Witness ==
    /\ ret.op = "get_price_forecast"
    /\ ret.kind = "error"
    /\ ret.crop_name \in DOMAIN historical_data
    /\ ret.crop_name \notin DOMAIN models

\* C30: with construction and in-process training only, every commodity in
\* models has a series of at least 130 rows, so that the tail
\* _prepare_prediction_features reads has exactly 30 rows, each lag column
\* is the price of one row (no mean fallback) and no prediction fails on a
\* missing series.  Checked under Spec.
C30_TrainedSeriesLong ==
    /\ \A c \in DOMAIN models :
          /\ c \in DOMAIN historical_data
          /\ LET ser == historical_data[c]
                 obs == PredictObs(ser)
             IN  /\ ser.len >= 130
                 /\ ser.len - Max(0, ser.len - TailLen) = 30
                 /\ obs.price_lag_1 = <<ser.len - 1, ser.len - 1>>
                 /\ obs.price_lag_7 = <<ser.len - 7, ser.len - 7>>
                 /\ obs.price_lag_30 = <<ser.len - 30, ser.len - 30>>
    /\ ~ (/\ ret.op = "predict_price"
          /\ ret.kind = "error"
          /\ ret.error = "KeyError")

\* C30's case: a prediction on a series of exactly 130 rows has returned
C30_Witness ==
    /\ Predicted(ret)
    /\ historical_data[ret.crop_name].len = 130

====
